---- MODULE Spec2Model ----
(***************************************************************************)
(* The task store of meilisearch-lib (tasks/task_store/mod.rs): the        *)
(* TaskStore facade over the persistent task log, its TaskFilter, and the  *)
(* query layer the HTTP tests exercise.                                    *)
(*                                                                         *)
(* The log (tasks/task_store/store.rs), the Task accessors (tasks/task.rs) *)
(* and the task routes of meilisearch-http are not part of the sources at  *)
(* hand; their operators below follow the specification's section 4.1, 3   *)
(* and 6 and are marked as such where they are defined.                    *)
(*                                                                         *)
(* Timestamps of events are left out: an event is its kind.                *)
(***************************************************************************)
EXTENDS Integers, Sequences, FiniteSets, TLC

(* ------------------------------------------------------------------ *)
(* Bounds                                                              *)
(* ------------------------------------------------------------------ *)

\* Largest task identifier a call may write or allocate.
MaxTaskId == 2

\* Longest list of tasks handed to update_tasks, longest dump file, longest
\* DocumentAdditions selection.
MaxBatch == 2

\* Number of TaskStore calls dispatched in one behaviour.
MaxCalls == 3

\* Largest identifier the property test of the store draws.
MaxTestId == 4

TaskIds == 0..MaxTaskId

\* The concurrent callers of the shared TaskStore.
Procs == {"a", "b"}

(* ------------------------------------------------------------------ *)
(* Task model (tasks/task.rs)                                          *)
(* ------------------------------------------------------------------ *)

\* Option<T>: None is the empty sequence, Some(x) the one-element sequence.
None == <<>>

Some(x) == <<x>>

\* TaskContent values: the variant, the index it targets (None for a
\* cross-index task) and the payload it references (None when it has none).
IndexCreation(index) == [kind |-> "indexCreation", index_uid |-> Some(index), content_uuid |-> None]

DocumentAddition(index) == [kind |-> "documentAdditionOrUpdate", index_uid |-> Some(index), content_uuid |-> Some("uuid")]

Dump == [kind |-> "dump", index_uid |-> None, content_uuid |-> None]

Contents == {IndexCreation("test"), DocumentAddition("test"), IndexCreation("other"), Dump}

\* The event histories a caller hands to update_tasks or a dump file holds.
EventSeqs == {<<"Created">>, <<"Created", "Processing">>, <<"Created", "Processing", "Succeeded">>, <<"Created", "Processing", "Failed">>}

Task(id, content, events) == [id |-> id, content |-> content, events |-> events]

Tasks == {Task(id, c, e) : id \in TaskIds, c \in Contents, e \in EventSeqs}

\* Task::index_uid
index_uid(task) == task.content.index_uid

\* Task::get_content_uuid
get_content_uuid(task) == task.content.content_uuid

\* Task::is_finished: the last event is terminal.
is_finished(task) == Len(task.events) > 0 /\ task.events[Len(task.events)] \in {"Succeeded", "Failed"}

\* The derived status: the last event's kind.
status(task) == IF Len(task.events) = 0 THEN "enqueued" ELSE CASE task.events[Len(task.events)] = "Created" -> "enqueued" [] task.events[Len(task.events)] = "Processing" -> "processing" [] task.events[Len(task.events)] = "Succeeded" -> "succeeded" [] OTHER -> "failed"

(* ------------------------------------------------------------------ *)
(* Persistent task log (tasks/task_store/store.rs)                     *)
(* A transaction's view of the log is a function from the identifiers  *)
(* present to their tasks.                                             *)
(* ------------------------------------------------------------------ *)

EmptyLog == [i \in {} |-> 0]

Max(S) == CHOOSE m \in S : \A i \in S : i <= m

\* Mutant: the number of tasks stored.
next_task_id_count(txn) == Cardinality(DOMAIN txn)

\* Mutant: the first identifier that is free.
next_task_id_first_free(txn) == CHOOSE n \in 0..Cardinality(DOMAIN txn) : n \notin DOMAIN txn /\ \A m \in 0..(n - 1) : m \in DOMAIN txn

\* Mutant: the greatest stored identifier itself.
next_task_id_last(txn) == IF DOMAIN txn = {} THEN 0 ELSE Max(DOMAIN txn)

\* Store::next_task_id: the greatest stored identifier plus one, 0 when empty.
next_task_id(txn) == IF DOMAIN txn = {} THEN 0 ELSE Max(DOMAIN txn) + 1

\* Store::put: upsert at the task's own identifier.
put(txn, task) == [i \in DOMAIN txn \cup {task.id} |-> IF i = task.id THEN task ELSE txn[i]]

\* Store::get
get(txn, id) == IF id \in DOMAIN txn THEN Some(txn[id]) ELSE None

(* ------------------------------------------------------------------ *)
(* TaskFilter                                                          *)
(* ------------------------------------------------------------------ *)

\* A TaskFilter: `indexes` is None or Some(set of index names); `filter_fn` is
\* None or Some(f), f being the closure the task routes build: the types and
\* the statuses it accepts, each None (any) or Some(set).
TaskFilter(indexes, f) == [indexes |-> indexes, filter_fn |-> f]

\* TaskFilter::default()
DefaultFilter == TaskFilter(None, None)

\* TaskFilter::pass
pass(filter, task) == IF index_uid(task) # None THEN (IF filter.indexes = None THEN TRUE ELSE index_uid(task)[1] \in filter.indexes[1]) ELSE FALSE

\* TaskFilter::filtered_indexes
filtered_indexes(filter) == filter.indexes

\* TaskFilter::filter_index
filter_index(filter, index) == [filter EXCEPT !.indexes = IF filter.indexes = None THEN Some({index}) ELSE Some(filter.indexes[1] \cup {index})]

\* TaskFilter::filter_fn
filter_fn(filter, f) == [filter EXCEPT !.filter_fn = Some(f)]

\* The closure of the task routes applied to a task: the task's type is one of
\* the types and its status one of the statuses.
apply_fn(f, task) == (f.types = None \/ task.content.kind \in f.types[1]) /\ (f.statuses = None \/ status(task) \in f.statuses[1])

(* ------------------------------------------------------------------ *)
(* Reads of the log (tasks/task_store/store.rs)                        *)
(* ------------------------------------------------------------------ *)

\* The filter of a scan accepts the task: the index test and the predicate.
accepts(filter, task) == filter = None \/ (index_uid(task) # None /\ (filtered_indexes(filter[1]) = None \/ index_uid(task)[1] \in filtered_indexes(filter[1])[1]) /\ (filter[1].filter_fn = None \/ apply_fn(filter[1].filter_fn[1], task)))

RECURSIVE scan_down(_, _, _, _)
\* The tasks at or below `id` the filter accepts, most recent first, at most n.
scan_down(txn, id, filter, n) == IF id < 0 \/ n = 0 THEN <<>> ELSE IF id \in DOMAIN txn /\ accepts(filter, txn[id]) THEN <<txn[id]>> \o scan_down(txn, id - 1, filter, n - 1) ELSE scan_down(txn, id - 1, filter, n)

\* Store::list_tasks: from `offset` (or the last task) downwards, `limit` results.
store_list_tasks(txn, offset, filter, limit) == scan_down(txn, IF offset # None THEN offset[1] ELSE next_task_id(txn) - 1, filter, IF limit # None THEN limit[1] ELSE Cardinality(DOMAIN txn))

RECURSIVE scan_up(_, _)
\* The unfinished tasks at or above `id`, in identifier order.
scan_up(txn, id) == IF id >= next_task_id(txn) THEN <<>> ELSE IF id \in DOMAIN txn /\ ~is_finished(txn[id]) THEN <<txn[id]>> \o scan_up(txn, id + 1) ELSE scan_up(txn, id + 1)

\* Store::fetch_unfinished_tasks
store_fetch_unfinished_tasks(txn, offset) == scan_up(txn, IF offset # None THEN offset[1] ELSE 0)

(* ------------------------------------------------------------------ *)
(* State                                                               *)
(* ------------------------------------------------------------------ *)

VARIABLES
    log,            \* the committed content of the log
    wtxns,            \* per caller: the view of its open write transaction, or None
    rtxns,           \* per caller: the snapshot of its open read transaction, or None
    pc,             \* per caller: the step its dispatched closure is at
    call,           \* per caller: the arguments and locals of its call
    ret,            \* per caller: the result of its last completed call
    calls,          \* calls dispatched so far
    committed_max,  \* history: the greatest identifier ever committed, -1 when none
    registered,     \* history: the identifiers register returned, in commit order
    dir,            \* the dump directory: None, or the records written to
                    \* updates/data.jsonl and the payloads copied beside it
    dumped          \* history: the log as the last dump listed it, or None

vars == <<log, wtxns, rtxns, pc, call, ret, calls, committed_max, registered, dir, dumped>>

\* The locals of a call that is not running, and the fields a call does not use.
\* `abandoned`: the caller has dropped the future it was awaiting.
NoCall == [content |-> Dump, next_task_id |-> 0, task |-> None, tasks |-> <<>>, k |-> 0, id |-> 0, filter |-> None, offset |-> None, limit |-> None, processing |-> [kind |-> "Nothing", ids |-> <<>>], query |-> None, abandoned |-> FALSE]

\* Results: Ok carries the returned tasks (and the selection handed back);
\* an error carries its kind and, for UnexistingTask, the identifier.
NoRet == [op |-> "none", kind |-> "none", id |-> 0, tasks |-> <<>>, processing |-> [kind |-> "Nothing", ids |-> <<>>], shape |-> "none"]

Ok(op, tasks) == [NoRet EXCEPT !.op = op, !.kind = "Ok", !.tasks = tasks]

\* TaskError::UnexistingTask(id)
UnexistingTask(op, id) == [NoRet EXCEPT !.op = op, !.kind = "UnexistingTask", !.id = id]

\* The storage error `?` propagates from wtxn, rtxn, get, put and commit.
StorageError(op) == [NoRet EXCEPT !.op = op, !.kind = "Storage"]

\* The serde_json error `?` propagates from a record that does not parse.
ParseError(op) == [NoRet EXCEPT !.op = op, !.kind = "Parse"]

Init ==
    /\ log = EmptyLog
    /\ wtxns = [p \in Procs |-> None]
    /\ rtxns = [p \in Procs |-> None]
    /\ pc = [p \in Procs |-> "idle"]
    /\ call = [p \in Procs |-> NoCall]
    /\ ret = [p \in Procs |-> NoRet]
    /\ calls = 0
    /\ committed_max = -1
    /\ registered = <<>>
    /\ dir = None
    /\ dumped = None

(* ------------------------------------------------------------------ *)
(* Transactions of the storage engine (heed/LMDB through store.rs)     *)
(* ------------------------------------------------------------------ *)

\* Store::wtxn: write transactions are exclusive; a second writer waits.
can_wtxn == \A q \in Procs : wtxns[q] = None

\* The view of caller p's open write transaction.
view(p) == wtxns[p][1]

\* RwTxn::commit: the view becomes the committed log.
commit(p) ==
    /\ log' = view(p)
    /\ wtxns' = [wtxns EXCEPT ![p] = None]
    /\ committed_max' = IF DOMAIN view(p) # {} /\ Max(DOMAIN view(p)) > committed_max THEN Max(DOMAIN view(p)) ELSE committed_max

\* Dropping a write transaction without commit aborts it.
abort(p) ==
    /\ wtxns' = [wtxns EXCEPT ![p] = None]
    /\ UNCHANGED <<log, committed_max>>

\* A call is dispatched: spawn_blocking hands the closure to the blocking pool.
dispatch(p, first, locals) ==
    /\ pc[p] = "idle"
    /\ calls < MaxCalls
    /\ calls' = calls + 1
    /\ pc' = [pc EXCEPT ![p] = first]
    /\ call' = [call EXCEPT ![p] = locals]
    /\ ret' = [ret EXCEPT ![p] = NoRet]

\* The caller drops the future of its call while the closure is on the
\* blocking pool: the JoinHandle is dropped, the closure is not stopped.
abandon(p) ==
    /\ pc[p] # "idle"
    /\ ~call[p].abandoned
    /\ call' = [call EXCEPT ![p].abandoned = TRUE]
    /\ UNCHANGED <<log, wtxns, rtxns, pc, ret, calls, committed_max, registered, dir, dumped>>

\* The closure returns and the caller's await completes with result r.
return(p, r) ==
    /\ pc' = [pc EXCEPT ![p] = "idle"]
    /\ ret' = [ret EXCEPT ![p] = r]

(* ------------------------------------------------------------------ *)
(* TaskStore::register                                                 *)
(* ------------------------------------------------------------------ *)

\* Mutant: the identifier after the one read.
register_task_skip(next_id, content) == Task(next_id + 1, content, <<"Created">>)

\* The task register builds from the identifier it read.
register_task(next_id, content) == Task(next_id, content, <<"Created">>)

register(p, content) ==
    /\ dispatch(p, "register_wtxn", [NoCall EXCEPT !.content = content])
    /\ UNCHANGED <<log, wtxns, rtxns, committed_max, registered, dir, dumped>>

\* Mutant: the transaction register opens does not wait for the writer.
register_wtxn_shared(p) ==
    /\ pc[p] = "register_wtxn"
    /\ next_task_id(log) <= MaxTaskId
    /\ wtxns' = [wtxns EXCEPT ![p] = Some(log)]
    /\ pc' = [pc EXCEPT ![p] = "register_next_task_id"]
    /\ UNCHANGED <<log, rtxns, call, ret, calls, committed_max, registered, dir, dumped>>

\* let mut txn = store.wtxn()?;
register_wtxn(p) ==
    /\ pc[p] = "register_wtxn"
    /\ can_wtxn
    /\ next_task_id(log) <= MaxTaskId
    /\ wtxns' = [wtxns EXCEPT ![p] = Some(log)]
    /\ pc' = [pc EXCEPT ![p] = "register_next_task_id"]
    /\ UNCHANGED <<log, rtxns, call, ret, calls, committed_max, registered, dir, dumped>>

\* let next_task_id = store.next_task_id(&mut txn)?;
register_next_task_id(p) ==
    /\ pc[p] = "register_next_task_id"
    /\ call' = [call EXCEPT ![p].next_task_id = next_task_id(view(p)), ![p].task = Some(register_task(next_task_id(view(p)), call[p].content))]
    /\ pc' = [pc EXCEPT ![p] = "register_put"]
    /\ UNCHANGED <<log, wtxns, rtxns, ret, calls, committed_max, registered, dir, dumped>>

\* Mutant: the closure stops where the abandoned caller was awaiting it.
register_put_cancelled(p) ==
    /\ pc[p] = "register_put"
    /\ ~call[p].abandoned
    /\ wtxns' = [wtxns EXCEPT ![p] = Some(put(view(p), call[p].task[1]))]
    /\ pc' = [pc EXCEPT ![p] = "register_commit"]
    /\ UNCHANGED <<log, rtxns, call, ret, calls, committed_max, registered, dir, dumped>>

\* store.put(&mut txn, &task)?;
register_put(p) ==
    /\ pc[p] = "register_put"
    /\ wtxns' = [wtxns EXCEPT ![p] = Some(put(view(p), call[p].task[1]))]
    /\ pc' = [pc EXCEPT ![p] = "register_commit"]
    /\ UNCHANGED <<log, rtxns, call, ret, calls, committed_max, registered, dir, dumped>>

\* txn.commit()?; Ok(task)
register_commit(p) ==
    /\ pc[p] = "register_commit"
    /\ commit(p)
    /\ return(p, Ok("register", <<call[p].task[1]>>))
    /\ registered' = Append(registered, call[p].task[1].id)
    /\ UNCHANGED <<rtxns, call, calls, dir, dumped>>

\* Any `?` of the closure fails: the transaction, if open, is dropped.
register_error(p) ==
    /\ pc[p] \in {"register_wtxn", "register_next_task_id", "register_put", "register_commit"}
    /\ abort(p)
    /\ return(p, StorageError("register"))
    /\ UNCHANGED <<rtxns, call, calls, registered, dir, dumped>>

(* ------------------------------------------------------------------ *)
(* TaskStore::update_tasks                                             *)
(* ------------------------------------------------------------------ *)

\* The sequences over S of length at most n.
SeqsUpTo(S, n) == UNION {[1..k -> S] : k \in 0..n}

\* The tasks a caller hands to update_tasks.
UpdateTasks == {Task(id, c, e) : id \in TaskIds, c \in {DocumentAddition("test")}, e \in {<<"Created", "Processing">>, <<"Created", "Processing", "Succeeded">>}}

\* The list `tasks` is an input of the call. The model draws it one task at a
\* time, as the loop reaches it, and keeps in call[p].tasks the part the loop
\* has gone through: the same behaviours as with the list drawn at the call.
update_tasks(p) ==
    /\ dispatch(p, "update_tasks_wtxn", NoCall)
    /\ UNCHANGED <<log, wtxns, rtxns, committed_max, registered, dir, dumped>>

\* let mut txn = store.wtxn()?;
update_tasks_wtxn(p) ==
    /\ pc[p] = "update_tasks_wtxn"
    /\ can_wtxn
    /\ wtxns' = [wtxns EXCEPT ![p] = Some(log)]
    /\ pc' = [pc EXCEPT ![p] = "update_tasks_put"]
    /\ UNCHANGED <<log, rtxns, call, ret, calls, committed_max, registered, dir, dumped>>

\* for task in &tasks { store.put(&mut txn, task)?; }
update_tasks_put(p, task) ==
    /\ pc[p] = "update_tasks_put"
    /\ Len(call[p].tasks) < MaxBatch
    /\ wtxns' = [wtxns EXCEPT ![p] = Some(put(view(p), task))]
    /\ call' = [call EXCEPT ![p].tasks = Append(call[p].tasks, task)]
    /\ UNCHANGED <<log, rtxns, pc, ret, calls, committed_max, registered, dir, dumped>>

\* (the list is exhausted) txn.commit()?; Ok(tasks)
update_tasks_commit(p) ==
    /\ pc[p] = "update_tasks_put"
    /\ commit(p)
    /\ return(p, Ok("update_tasks", call[p].tasks))
    /\ UNCHANGED <<rtxns, call, calls, registered, dir, dumped>>

\* Mutant: a failure commits what the transaction has written so far.
update_tasks_error_partial(p) ==
    /\ pc[p] \in {"update_tasks_wtxn", "update_tasks_put"}
    /\ IF wtxns[p] # None THEN commit(p) ELSE abort(p)
    /\ return(p, StorageError("update_tasks"))
    /\ UNCHANGED <<rtxns, call, calls, registered, dir, dumped>>

\* Any `?` of the closure fails: the transaction, if open, is dropped.
update_tasks_error(p) ==
    /\ pc[p] \in {"update_tasks_wtxn", "update_tasks_put"}
    /\ abort(p)
    /\ return(p, StorageError("update_tasks"))
    /\ UNCHANGED <<rtxns, call, calls, registered, dir, dumped>>

(* ------------------------------------------------------------------ *)
(* TaskStore::register_raw_update and TaskStore::load_dump             *)
(* ------------------------------------------------------------------ *)

\* Mutant: the task is stored under the next identifier of the log.
register_raw_update_renumber(wtxn, task) == put(wtxn, [task EXCEPT !.id = next_task_id(wtxn)])

\* self.store.put(wtxn, task)?
register_raw_update(wtxn, task) == put(wtxn, task)

\* The tasks the records of a data.jsonl hold.
DumpTasks == {Task(id, IndexCreation("other"), <<"Created">>) : id \in TaskIds}

\* The stream reads data.jsonl record by record: the model draws each record
\* as the loop reaches it and keeps in call[p].tasks the tasks read so far (at
\* most MaxBatch of them when the file is arbitrary).
load_dump(p) ==
    /\ dispatch(p, "load_dump_wtxn", NoCall)
    /\ UNCHANGED <<log, wtxns, rtxns, committed_max, registered, dir, dumped>>

\* let mut wtxn = env.write_txn()?;
load_dump_wtxn(p) ==
    /\ pc[p] = "load_dump_wtxn"
    /\ can_wtxn
    /\ wtxns' = [wtxns EXCEPT ![p] = Some(log)]
    /\ pc' = [pc EXCEPT ![p] = "load_dump_entry"]
    /\ UNCHANGED <<log, rtxns, call, ret, calls, committed_max, registered, dir, dumped>>

\* for entry in stream { store.register_raw_update(&mut wtxn, &entry?)?; }
load_dump_entry(p, task) ==
    /\ pc[p] = "load_dump_entry"
    /\ wtxns' = [wtxns EXCEPT ![p] = Some(register_raw_update(view(p), task))]
    /\ call' = [call EXCEPT ![p].tasks = Append(call[p].tasks, task)]
    /\ UNCHANGED <<log, rtxns, pc, ret, calls, committed_max, registered, dir, dumped>>

\* Mutant: the records read before the one that does not parse are committed.
load_dump_parse_error_commit(p) ==
    /\ pc[p] = "load_dump_entry"
    /\ Len(call[p].tasks) < MaxBatch
    /\ commit(p)
    /\ return(p, ParseError("load_dump"))
    /\ UNCHANGED <<rtxns, call, calls, registered, dir, dumped>>

\* `entry?` on a record that does not parse: load_dump returns, wtxn is dropped.
load_dump_parse_error(p) ==
    /\ pc[p] = "load_dump_entry"
    /\ Len(call[p].tasks) < MaxBatch
    /\ abort(p)
    /\ return(p, ParseError("load_dump"))
    /\ UNCHANGED <<rtxns, call, calls, registered, dir, dumped>>

\* (the stream is at its end) wtxn.commit()?; Ok(())
load_dump_commit(p) ==
    /\ pc[p] = "load_dump_entry"
    /\ commit(p)
    /\ return(p, Ok("load_dump", <<>>))
    /\ UNCHANGED <<rtxns, call, calls, registered, dir, dumped>>

\* Opening the file, the write transaction, a put or the commit fails.
load_dump_error(p) ==
    /\ pc[p] \in {"load_dump_wtxn", "load_dump_entry"}
    /\ abort(p)
    /\ return(p, StorageError("load_dump"))
    /\ UNCHANGED <<rtxns, call, calls, registered, dir, dumped>>

(* ------------------------------------------------------------------ *)
(* Read transactions                                                   *)
(* ------------------------------------------------------------------ *)

\* Store::rtxn: a read transaction sees the log as committed when it begins.
begin_rtxn(p, from, to) ==
    /\ pc[p] = from
    /\ rtxns' = [rtxns EXCEPT ![p] = Some(log)]
    /\ pc' = [pc EXCEPT ![p] = to]
    /\ UNCHANGED <<log, wtxns, call, ret, calls, committed_max, registered, dir, dumped>>

\* The snapshot of caller p's open read transaction.
snapshot(p) == rtxns[p][1]

\* The closure of a read returns r: its read transaction is dropped.
end_rtxn(p, r) ==
    /\ rtxns' = [rtxns EXCEPT ![p] = None]
    /\ return(p, r)
    /\ UNCHANGED <<log, wtxns, call, calls, committed_max, registered, dir, dumped>>

(* ------------------------------------------------------------------ *)
(* TaskStore::get_task                                                 *)
(* ------------------------------------------------------------------ *)

\* Mutant: an absent task is reported as a failure of the storage.
get_task_result_storage(task, id, filter) == IF task = None THEN StorageError("get_task") ELSE IF filter # None THEN (IF pass(filter[1], task[1]) THEN Ok("get_task", task) ELSE UnexistingTask("get_task", id)) ELSE Ok("get_task", task)

\* What get_task makes of the task the closure read: ok_or(UnexistingTask),
\* then the match on the filter.
get_task_result(task, id, filter) == IF task = None THEN UnexistingTask("get_task", id) ELSE IF filter # None THEN (IF pass(filter[1], task[1]) THEN Ok("get_task", task) ELSE UnexistingTask("get_task", id)) ELSE Ok("get_task", task)

get_task(p, id, filter) ==
    /\ dispatch(p, "get_task_rtxn", [NoCall EXCEPT !.id = id, !.filter = filter])
    /\ UNCHANGED <<log, wtxns, rtxns, committed_max, registered, dir, dumped>>

\* let txn = store.rtxn()?;
get_task_rtxn(p) == begin_rtxn(p, "get_task_rtxn", "get_task_get")

\* let task = store.get(&txn, id)?; and the rest of get_task
get_task_get(p) ==
    /\ pc[p] = "get_task_get"
    /\ end_rtxn(p, get_task_result(get(snapshot(p), call[p].id), call[p].id, call[p].filter))

\* store.rtxn() or store.get fails
get_task_error(p) ==
    /\ pc[p] \in {"get_task_rtxn", "get_task_get"}
    /\ end_rtxn(p, StorageError("get_task"))

(* ------------------------------------------------------------------ *)
(* TaskStore::get_processing_tasks                                     *)
(* ------------------------------------------------------------------ *)

\* Processing values
DocumentAdditions(ids) == [kind |-> "DocumentAdditions", ids |-> ids]

IndexUpdate(id) == [kind |-> "IndexUpdate", ids |-> <<id>>]

ProcessingDump(id) == [kind |-> "Dump", ids |-> <<id>>]

Nothing == [kind |-> "Nothing", ids |-> <<>>]

\* The BatchContent variant each Processing variant resolves to.
batch_content(processing) == CASE processing.kind = "DocumentAdditions" -> "DocumentsAdditionBatch" [] processing.kind = "IndexUpdate" -> "IndexUpdate" [] processing.kind = "Dump" -> "Dump" [] OTHER -> "Empty"

\* The positions of `ids` whose identifier the log does not hold.
missing(txn, ids) == {k \in 1..Len(ids) : get(txn, ids[k]) = None}

\* Ok((processing, content))
OkBatch(processing, tasks) == [Ok("get_processing_tasks", tasks) EXCEPT !.processing = processing, !.shape = batch_content(processing)]

\* Mutant: an identifier the log does not hold is reported as an error of its
\* own kind.
get_processing_tasks_result_inconsistency(txn, processing) == IF missing(txn, processing.ids) # {} THEN [UnexistingTask("get_processing_tasks", processing.ids[CHOOSE k \in missing(txn, processing.ids) : \A j \in missing(txn, processing.ids) : k <= j]) EXCEPT !.kind = "Inconsistency"] ELSE OkBatch(processing, [k \in 1..Len(processing.ids) |-> txn[processing.ids[k]]])

\* Mutant: the identifiers the log does not hold are skipped.
get_processing_tasks_result_skip(txn, processing) == OkBatch(processing, [k \in 1..(Len(processing.ids) - Cardinality(missing(txn, processing.ids))) |-> txn[processing.ids[CHOOSE j \in 1..Len(processing.ids) : j \notin missing(txn, processing.ids) /\ Cardinality({i \in 1..j : i \notin missing(txn, processing.ids)}) = k]]])

\* The match on `processing`: every identifier is read in order, the first one
\* absent ends the closure with UnexistingTask.
get_processing_tasks_result(txn, processing) == IF missing(txn, processing.ids) # {} THEN UnexistingTask("get_processing_tasks", processing.ids[CHOOSE k \in missing(txn, processing.ids) : \A j \in missing(txn, processing.ids) : k <= j]) ELSE OkBatch(processing, [k \in 1..Len(processing.ids) |-> txn[processing.ids[k]]])

\* debug_assert!(matches!(task.content, TaskContent::Dump { .. })): the task a
\* Dump selection names, when the log holds it, is a Dump task.
dump_assertion(txn, processing) == IF processing.kind = "Dump" /\ missing(txn, processing.ids) = {} THEN txn[processing.ids[1]].content.kind = "dump" ELSE TRUE

get_processing_tasks(p, processing) ==
    /\ dump_assertion(log, processing)
    /\ dispatch(p, "get_processing_tasks_rtxn", [NoCall EXCEPT !.processing = processing])
    /\ UNCHANGED <<log, wtxns, rtxns, committed_max, registered, dir, dumped>>

\* let txn = store.rtxn()?;
get_processing_tasks_rtxn(p) == begin_rtxn(p, "get_processing_tasks_rtxn", "get_processing_tasks_get")

\* let content = match processing { ... }; Ok((processing, content))
get_processing_tasks_get(p) ==
    /\ pc[p] = "get_processing_tasks_get"
    /\ end_rtxn(p, get_processing_tasks_result(snapshot(p), call[p].processing))

\* The same closure taken one store.get at a time, as a writer running beside
\* it sees it: call[p].k identifiers are resolved, their tasks in call[p].tasks.

\* Mutant: each get reads the log as committed at that moment.
txn_get_latest(p, id) == get(log, id)

\* store.get(&txn, id) in the read transaction of caller p
txn_get(p, id) == get(snapshot(p), id)

\* store.get(&txn, *id)?.ok_or(TaskError::UnexistingTask(*id))?; tasks.push(task)
get_processing_tasks_get_one(p) ==
    /\ pc[p] = "get_processing_tasks_get"
    /\ call[p].k < Len(call[p].processing.ids)
    /\ IF txn_get(p, call[p].processing.ids[call[p].k + 1]) = None
       THEN /\ end_rtxn(p, UnexistingTask("get_processing_tasks", call[p].processing.ids[call[p].k + 1]))
       ELSE /\ call' = [call EXCEPT ![p].k = call[p].k + 1, ![p].tasks = Append(call[p].tasks, txn_get(p, call[p].processing.ids[call[p].k + 1])[1])]
            /\ UNCHANGED <<log, wtxns, rtxns, pc, ret, calls, committed_max, registered, dir, dumped>>

\* (every identifier is resolved) Ok((processing, content))
get_processing_tasks_ok(p) ==
    /\ pc[p] = "get_processing_tasks_get"
    /\ call[p].k = Len(call[p].processing.ids)
    /\ end_rtxn(p, OkBatch(call[p].processing, call[p].tasks))

\* store.rtxn() or a store.get fails
get_processing_tasks_error(p) ==
    /\ pc[p] \in {"get_processing_tasks_rtxn", "get_processing_tasks_get"}
    /\ end_rtxn(p, StorageError("get_processing_tasks"))

(* ------------------------------------------------------------------ *)
(* TaskStore::list_tasks and TaskStore::fetch_unfinished_tasks         *)
(* ------------------------------------------------------------------ *)

list_tasks(p, offset, filter, limit) ==
    /\ dispatch(p, "list_tasks_rtxn", [NoCall EXCEPT !.offset = offset, !.filter = filter, !.limit = limit])
    /\ UNCHANGED <<log, wtxns, rtxns, committed_max, registered, dir, dumped>>

\* let txn = store.rtxn()?;
list_tasks_rtxn(p) == begin_rtxn(p, "list_tasks_rtxn", "list_tasks_list")

\* Mutant: the filter is not handed to the store.
list_tasks_result_unfiltered(txn, offset, filter, limit) == Ok("list_tasks", store_list_tasks(txn, offset, None, limit))

\* What list_tasks hands to the store and returns.
list_tasks_result(txn, offset, filter, limit) == Ok("list_tasks", store_list_tasks(txn, offset, filter, limit))

\* let tasks = store.list_tasks(&txn, offset, filter, limit)?; Ok(tasks)
list_tasks_list(p) ==
    /\ pc[p] = "list_tasks_list"
    /\ end_rtxn(p, list_tasks_result(snapshot(p), call[p].offset, call[p].filter, call[p].limit))

\* store.rtxn() or store.list_tasks fails
list_tasks_error(p) ==
    /\ pc[p] \in {"list_tasks_rtxn", "list_tasks_list"}
    /\ end_rtxn(p, StorageError("list_tasks"))

fetch_unfinished_tasks(p, offset) ==
    /\ dispatch(p, "fetch_unfinished_tasks_rtxn", [NoCall EXCEPT !.offset = offset])
    /\ UNCHANGED <<log, wtxns, rtxns, committed_max, registered, dir, dumped>>

\* let txn = store.rtxn()?;
fetch_unfinished_tasks_rtxn(p) == begin_rtxn(p, "fetch_unfinished_tasks_rtxn", "fetch_unfinished_tasks_fetch")

\* Mutant: the offset is not handed to the store.
fetch_unfinished_tasks_result_all(txn, offset) == Ok("fetch_unfinished_tasks", store_fetch_unfinished_tasks(txn, None))

\* What fetch_unfinished_tasks hands to the store and returns.
fetch_unfinished_tasks_result(txn, offset) == Ok("fetch_unfinished_tasks", store_fetch_unfinished_tasks(txn, offset))

\* let tasks = store.fetch_unfinished_tasks(&txn, offset)?; Ok(tasks)
fetch_unfinished_tasks_fetch(p) ==
    /\ pc[p] = "fetch_unfinished_tasks_fetch"
    /\ end_rtxn(p, fetch_unfinished_tasks_result(snapshot(p), call[p].offset))

\* store.rtxn() or store.fetch_unfinished_tasks fails
fetch_unfinished_tasks_error(p) ==
    /\ pc[p] \in {"fetch_unfinished_tasks_rtxn", "fetch_unfinished_tasks_fetch"}
    /\ end_rtxn(p, StorageError("fetch_unfinished_tasks"))

(* ------------------------------------------------------------------ *)
(* The task routes of meilisearch-http: GET /tasks                     *)
(* ------------------------------------------------------------------ *)

\* Mutant: only a facet that is the token * alone is no constraint.
fold_star_or_alone(facet) == IF facet = None \/ facet[1] = {"*"} THEN None ELSE facet

\* A facet of the query holding the token * is no constraint.
fold_star_or(facet) == IF facet = None \/ "*" \in facet[1] THEN None ELSE facet

RECURSIVE filter_indexes(_, _)
\* filter_index called for every index name of the facet.
filter_indexes(filter, names) == IF names = {} THEN filter ELSE filter_indexes(filter_index(filter, CHOOSE n \in names : TRUE), names \ {CHOOSE n \in names : TRUE})

\* The TaskFilter of a query: the index names, then the closure over the
\* types and statuses when one of them is constrained.
query_filter(query) == LET indexes == fold_star_or(query.index_uid) types == fold_star_or(query.type) statuses == fold_star_or(query.status) indexes_filters == IF indexes = None THEN None ELSE Some(filter_indexes(DefaultFilter, indexes[1])) IN IF types # None \/ statuses # None THEN Some(filter_fn(IF indexes_filters = None THEN DefaultFilter ELSE indexes_filters[1], [types |-> types, statuses |-> statuses])) ELSE indexes_filters

Query(index_uid_facet, type_facet, status_facet) == [index_uid |-> index_uid_facet, type |-> type_facet, status |-> status_facet]

\* What the route answers from a snapshot of the log.
get_tasks_result(txn, query) == [list_tasks_result(txn, None, query_filter(query), None) EXCEPT !.op = "get_tasks"]

get_tasks(p, query) ==
    /\ dispatch(p, "get_tasks_rtxn", [NoCall EXCEPT !.query = Some(query), !.filter = query_filter(query)])
    /\ UNCHANGED <<log, wtxns, rtxns, committed_max, registered, dir, dumped>>

get_tasks_rtxn(p) == begin_rtxn(p, "get_tasks_rtxn", "get_tasks_list")

get_tasks_list(p) ==
    /\ pc[p] = "get_tasks_list"
    /\ end_rtxn(p, get_tasks_result(snapshot(p), call[p].query[1]))

get_tasks_error(p) ==
    /\ pc[p] \in {"get_tasks_rtxn", "get_tasks_list"}
    /\ end_rtxn(p, StorageError("get_tasks"))

(* ------------------------------------------------------------------ *)
(* TaskStore::dump                                                     *)
(* ------------------------------------------------------------------ *)

\* serde_json::to_writer(&mut updates_file, &task): the record of a task, one
\* line of data.jsonl, its fields in the order of the Task structure.
to_writer(task) == <<task.id, task.content.kind, task.content.index_uid, task.content.content_uuid, task.events>>

\* The Task a record of data.jsonl deserializes to.
from_reader(record) == Task(record[1], [kind |-> record[2], index_uid |-> record[3], content_uuid |-> record[4]], record[5])

\* An empty dump directory: updates/data.jsonl has no record, no payload is
\* copied.
EmptyDir == [data |-> <<>>, payloads |-> <<>>]

\* Mutant: the tasks are listed through the default filter.
dump_tasks_filtered(txn) == list_tasks_result(txn, None, Some(DefaultFilter), None).tasks

\* let tasks = store.list_tasks(None, None, None).await?;
dump_tasks(txn) == list_tasks_result(txn, None, None, None).tasks

\* Mutant: the payload of every task that has one is copied.
dump_payload_always(task) == IF get_content_uuid(task) # None THEN <<get_content_uuid(task)[1]>> ELSE <<>>

\* if !task.is_finished() { if let Some(content_uuid) = task.get_content_uuid()
\* { update_file_store.dump(content_uuid, &dir_path)?; } }: the calls of the
\* payload store's dump hook made for a task, each the content uuid it is given.
dump_payload(task) == IF ~is_finished(task) THEN (IF get_content_uuid(task) # None THEN <<get_content_uuid(task)[1]>> ELSE <<>>) ELSE <<>>

\* TaskStore::dump(env, dir_path, update_file_store), dir_path a directory that
\* has no "updates" directory yet.
dump(p) ==
    /\ dir = None
    /\ dispatch(p, "dump_rtxn", NoCall)
    /\ UNCHANGED <<log, wtxns, rtxns, committed_max, registered, dir, dumped>>

\* store.list_tasks(None, None, None): let txn = store.rtxn()?;
dump_rtxn(p) == begin_rtxn(p, "dump_rtxn", "dump_list")

\* store.list_tasks(None, None, None): the listing, kept in call[p].tasks.
dump_list(p) ==
    /\ pc[p] = "dump_list"
    /\ call' = [call EXCEPT ![p].tasks = dump_tasks(snapshot(p))]
    /\ dumped' = Some(snapshot(p))
    /\ rtxns' = [rtxns EXCEPT ![p] = None]
    /\ pc' = [pc EXCEPT ![p] = "dump_create"]
    /\ UNCHANGED <<log, wtxns, ret, calls, committed_max, registered, dir>>

\* std::fs::create_dir(&update_dir)?; File::create(updates_file)?; BufWriter
dump_create(p) ==
    /\ pc[p] = "dump_create"
    /\ dir = None
    /\ dir' = Some(EmptyDir)
    /\ pc' = [pc EXCEPT ![p] = "dump_write"]
    /\ UNCHANGED <<log, wtxns, rtxns, call, ret, calls, committed_max, registered, dumped>>

\* Mutant: the loop reads each task again from the log as committed when the
\* record is written.
dump_write_reread(p) ==
    /\ pc[p] = "dump_write"
    /\ call[p].k < Len(call[p].tasks)
    /\ dir' = Some([data |-> Append(dir[1].data, to_writer(log[call[p].tasks[call[p].k + 1].id])), payloads |-> dir[1].payloads \o dump_payload(log[call[p].tasks[call[p].k + 1].id])])
    /\ call' = [call EXCEPT ![p].k = call[p].k + 1]
    /\ UNCHANGED <<log, wtxns, rtxns, pc, ret, calls, committed_max, registered, dumped>>

\* for task in tasks { to_writer; write_all(b"\n"); the payload hook }:
\* call[p].k tasks of the listing are written.
dump_write(p) ==
    /\ pc[p] = "dump_write"
    /\ call[p].k < Len(call[p].tasks)
    /\ dir' = Some([data |-> Append(dir[1].data, to_writer(call[p].tasks[call[p].k + 1])), payloads |-> dir[1].payloads \o dump_payload(call[p].tasks[call[p].k + 1])])
    /\ call' = [call EXCEPT ![p].k = call[p].k + 1]
    /\ UNCHANGED <<log, wtxns, rtxns, pc, ret, calls, committed_max, registered, dumped>>

\* (the listing is exhausted) updates_file.flush()?; Ok(())
dump_flush(p) ==
    /\ pc[p] = "dump_write"
    /\ call[p].k = Len(call[p].tasks)
    /\ return(p, Ok("dump", <<>>))
    /\ UNCHANGED <<log, wtxns, rtxns, call, calls, committed_max, registered, dir, dumped>>

\* The listing, create_dir, File::create, a write, the hook or the flush fails:
\* dump returns the error and leaves the directory as far as it got.
dump_error(p) ==
    /\ pc[p] \in {"dump_rtxn", "dump_list", "dump_create", "dump_write"}
    /\ rtxns' = [rtxns EXCEPT ![p] = None]
    /\ return(p, StorageError("dump"))
    /\ UNCHANGED <<log, wtxns, call, calls, committed_max, registered, dir, dumped>>

(* ------------------------------------------------------------------ *)
(* Specification of the writers                                        *)
(* ------------------------------------------------------------------ *)

Next ==
    \E p \in Procs :
        \/ \E content \in Contents : register(p, content)
        \/ register_wtxn(p)
        \/ register_next_task_id(p)
        \/ register_put(p)
        \/ register_commit(p)
        \/ register_error(p)
        \/ update_tasks(p)
        \/ update_tasks_wtxn(p)
        \/ \E task \in UpdateTasks : update_tasks_put(p, task)
        \/ update_tasks_commit(p)
        \/ update_tasks_error(p)
        \/ load_dump(p)
        \/ load_dump_wtxn(p)
        \/ \E task \in {t \in DumpTasks : Len(call[p].tasks) < MaxBatch} : load_dump_entry(p, task)
        \/ load_dump_parse_error(p)
        \/ load_dump_commit(p)
        \/ load_dump_error(p)

Spec == Init /\ [][Next]_vars

(* ------------------------------------------------------------------ *)
(* Specification of one caller that writes and reads                   *)
(* ------------------------------------------------------------------ *)

\* The filters, offsets, limits, selections and queries a caller passes.
Predicates == {[types |-> Some({"indexCreation"}), statuses |-> None], [types |-> None, statuses |-> Some({"succeeded"})], [types |-> Some({"indexCreation"}), statuses |-> Some({"failed"})], [types |-> Some({"indexCreation", "documentAdditionOrUpdate"}), statuses |-> Some({"succeeded", "processing", "enqueued"})]}

Filters == {None} \cup {Some(TaskFilter(i, f)) : i \in {None, Some({"test"}), Some({"other", "pasteque"})}, f \in {None} \cup {Some(g) : g \in Predicates}}

Offsets == {None} \cup {Some(id) : id \in TaskIds}

Limits == {None} \cup {Some(n) : n \in 1..MaxBatch}

Selections == {DocumentAdditions(ids) : ids \in SeqsUpTo(TaskIds, MaxBatch)} \cup {IndexUpdate(id) : id \in TaskIds} \cup {ProcessingDump(id) : id \in TaskIds} \cup {Nothing}

Queries == {Query(i, t, s) : i \in {None, Some({"*"}), Some({"*", "pasteque"}), Some({"test"}), Some({"test", "*"})}, t \in {None, Some({"*"}), Some({"*", "documentAdditionOrUpdate"}), Some({"indexCreation"})}, s \in {None, Some({"*"}), Some({"*", "failed"}), Some({"succeeded"})}}

\* The caller of the single-caller specification.
Caller == "a"

NextQuery ==
    \/ \E content \in Contents : register(Caller, content)
    \/ register_wtxn(Caller)
    \/ register_next_task_id(Caller)
    \/ register_put(Caller)
    \/ register_commit(Caller)
    \/ register_error(Caller)
    \/ update_tasks(Caller)
    \/ update_tasks_wtxn(Caller)
    \/ \E task \in UpdateTasks : update_tasks_put(Caller, task)
    \/ update_tasks_commit(Caller)
    \/ update_tasks_error(Caller)
    \/ \E id \in TaskIds, filter \in Filters : get_task(Caller, id, filter)
    \/ get_task_rtxn(Caller)
    \/ get_task_get(Caller)
    \/ get_task_error(Caller)
    \/ \E processing \in Selections : get_processing_tasks(Caller, processing)
    \/ get_processing_tasks_rtxn(Caller)
    \/ get_processing_tasks_get(Caller)
    \/ get_processing_tasks_error(Caller)
    \/ \E offset \in Offsets, filter \in Filters, limit \in Limits : list_tasks(Caller, offset, filter, limit)
    \/ list_tasks_rtxn(Caller)
    \/ list_tasks_list(Caller)
    \/ list_tasks_error(Caller)
    \/ \E offset \in Offsets : fetch_unfinished_tasks(Caller, offset)
    \/ fetch_unfinished_tasks_rtxn(Caller)
    \/ fetch_unfinished_tasks_fetch(Caller)
    \/ fetch_unfinished_tasks_error(Caller)
    \/ \E query \in Queries : get_tasks(Caller, query)
    \/ get_tasks_rtxn(Caller)
    \/ get_tasks_list(Caller)
    \/ get_tasks_error(Caller)

SpecQuery == Init /\ [][NextQuery]_vars

(* ------------------------------------------------------------------ *)
(* test_increment_task_id: the store driven directly                   *)
(* ------------------------------------------------------------------ *)

\* gen_task: the task of identifier id the property test puts.
gen_task(id) == Task(id, IndexCreation("test"), <<>>)

\* let mut txn = store.wtxn().unwrap();
\* assert_eq!(store.next_task_id(&mut txn).unwrap(), 0); txn.abort().unwrap();
\* The identifier read is kept in ret.
test_empty ==
    /\ pc[Caller] = "idle"
    /\ ret[Caller] = NoRet
    /\ can_wtxn
    /\ ret' = [ret EXCEPT ![Caller] = [NoRet EXCEPT !.op = "test_increment_task_id", !.id = next_task_id(log)]]
    /\ pc' = [pc EXCEPT ![Caller] = "test_wtxn"]
    /\ UNCHANGED <<log, wtxns, rtxns, call, calls, committed_max, registered, dir, dumped>>

\* The runner draws a task; let mut txn = store.wtxn().unwrap();
test_wtxn(id) ==
    /\ pc[Caller] = "test_wtxn"
    /\ can_wtxn
    /\ wtxns' = [wtxns EXCEPT ![Caller] = Some(log)]
    /\ call' = [call EXCEPT ![Caller] = [NoCall EXCEPT !.task = Some(gen_task(id))]]
    /\ pc' = [pc EXCEPT ![Caller] = "test_previous_id"]
    /\ UNCHANGED <<log, rtxns, ret, calls, committed_max, registered, dir, dumped>>

\* let previous_id = store.next_task_id(&mut txn).unwrap();
test_previous_id ==
    /\ pc[Caller] = "test_previous_id"
    /\ call' = [call EXCEPT ![Caller].next_task_id = next_task_id(view(Caller))]
    /\ pc' = [pc EXCEPT ![Caller] = "test_put"]
    /\ UNCHANGED <<log, wtxns, rtxns, ret, calls, committed_max, registered, dir, dumped>>

\* store.put(&mut txn, &task).unwrap();
test_put ==
    /\ pc[Caller] = "test_put"
    /\ wtxns' = [wtxns EXCEPT ![Caller] = Some(put(view(Caller), call[Caller].task[1]))]
    /\ pc' = [pc EXCEPT ![Caller] = "test_next_id"]
    /\ UNCHANGED <<log, rtxns, call, ret, calls, committed_max, registered, dir, dumped>>

\* let next_id = store.next_task_id(&mut txn).unwrap(); (kept in call.id)
test_next_id ==
    /\ pc[Caller] = "test_next_id"
    /\ call' = [call EXCEPT ![Caller].id = next_task_id(view(Caller))]
    /\ pc' = [pc EXCEPT ![Caller] = "test_commit"]
    /\ UNCHANGED <<log, wtxns, rtxns, ret, calls, committed_max, registered, dir, dumped>>

\* (the assertions) txn.commit().unwrap();
test_commit ==
    /\ pc[Caller] = "test_commit"
    /\ commit(Caller)
    /\ pc' = [pc EXCEPT ![Caller] = "test_wtxn"]
    /\ UNCHANGED <<rtxns, call, ret, calls, registered, dir, dumped>>

NextTest ==
    \/ test_empty
    \/ \E id \in 0..MaxTestId : test_wtxn(id)
    \/ test_previous_id
    \/ test_put
    \/ test_next_id
    \/ test_commit

SpecTest == Init /\ [][NextTest]_vars

(* ------------------------------------------------------------------ *)
(* Specification of a dump and its restoration                         *)
(* ------------------------------------------------------------------ *)

\* load_dump(src, env) of the directory a dump has filled, env a fresh
\* environment: the log of the instance that restores is empty.
load_dump_fresh(p) ==
    /\ pc[p] = "idle"
    /\ ret[p] = Ok("dump", <<>>)
    /\ log' = EmptyLog
    /\ committed_max' = -1
    /\ registered' = <<>>
    /\ pc' = [pc EXCEPT ![p] = "load_dump_wtxn"]
    /\ call' = [call EXCEPT ![p] = NoCall]
    /\ ret' = [ret EXCEPT ![p] = NoRet]
    /\ UNCHANGED <<wtxns, rtxns, calls, dir, dumped>>

\* One caller fills a log with register and update_tasks, dumps it, and the
\* dump is restored: the stream of load_dump yields the records of data.jsonl
\* in the order of the file.
NextDump ==
    \/ \E content \in Contents : dir = None /\ register(Caller, content)
    \/ register_wtxn(Caller)
    \/ register_next_task_id(Caller)
    \/ register_put(Caller)
    \/ register_commit(Caller)
    \/ register_error(Caller)
    \/ dir = None /\ update_tasks(Caller)
    \/ update_tasks_wtxn(Caller)
    \/ \E task \in UpdateTasks : update_tasks_put(Caller, task)
    \/ update_tasks_commit(Caller)
    \/ update_tasks_error(Caller)
    \/ dump(Caller)
    \/ dump_rtxn(Caller)
    \/ dump_list(Caller)
    \/ dump_create(Caller)
    \/ dump_write(Caller)
    \/ dump_flush(Caller)
    \/ dump_error(Caller)
    \/ load_dump_fresh(Caller)
    \/ load_dump_wtxn(Caller)
    \/ dir # None /\ Len(call[Caller].tasks) < Len(dir[1].data) /\ load_dump_entry(Caller, from_reader(dir[1].data[Len(call[Caller].tasks) + 1]))
    \/ dir # None /\ Len(call[Caller].tasks) = Len(dir[1].data) /\ load_dump_commit(Caller)
    \/ load_dump_error(Caller)

SpecDump == Init /\ [][NextDump]_vars

(* ------------------------------------------------------------------ *)
(* Specification of a reader beside a writer                           *)
(* ------------------------------------------------------------------ *)

Writer == "a"

Reader == "b"

\* The selections the reader resolves.
ReaderSelections == {DocumentAdditions(ids) : ids \in {<<0, 1>>, <<1, 0>>, <<0>>}} \cup {IndexUpdate(1)}

NextRW ==
    \/ \E content \in {DocumentAddition("test"), Dump} : register(Writer, content)
    \/ register_wtxn(Writer)
    \/ register_next_task_id(Writer)
    \/ register_put(Writer)
    \/ register_commit(Writer)
    \/ register_error(Writer)
    \/ update_tasks(Writer)
    \/ update_tasks_wtxn(Writer)
    \/ \E task \in UpdateTasks : update_tasks_put(Writer, task)
    \/ update_tasks_commit(Writer)
    \/ update_tasks_error(Writer)
    \/ \E id \in TaskIds : get_task(Reader, id, None)
    \/ get_task_rtxn(Reader)
    \/ get_task_get(Reader)
    \/ get_task_error(Reader)
    \/ \E processing \in ReaderSelections : get_processing_tasks(Reader, processing)
    \/ get_processing_tasks_rtxn(Reader)
    \/ get_processing_tasks_get_one(Reader)
    \/ get_processing_tasks_ok(Reader)
    \/ get_processing_tasks_error(Reader)
    \/ list_tasks(Reader, None, None, None)
    \/ list_tasks_rtxn(Reader)
    \/ list_tasks_list(Reader)
    \/ list_tasks_error(Reader)
    \/ fetch_unfinished_tasks(Reader, None)
    \/ fetch_unfinished_tasks_rtxn(Reader)
    \/ fetch_unfinished_tasks_fetch(Reader)
    \/ fetch_unfinished_tasks_error(Reader)

SpecRW == Init /\ [][NextRW]_vars

(* ------------------------------------------------------------------ *)
(* Specification of writers whose callers may abandon their wait       *)
(* ------------------------------------------------------------------ *)

\* update_tasks is given tasks the log holds.
NextLive ==
    \E p \in Procs :
        \/ register(p, DocumentAddition("test"))
        \/ register_wtxn(p)
        \/ register_next_task_id(p)
        \/ register_put(p)
        \/ register_commit(p)
        \/ register_error(p)
        \/ update_tasks(p)
        \/ update_tasks_wtxn(p)
        \/ \E task \in {t \in UpdateTasks : t.id \in DOMAIN log} : update_tasks_put(p, task)
        \/ update_tasks_commit(p)
        \/ update_tasks_error(p)
        \/ abandon(p)

\* A closure handed to the blocking pool has a thread of its own and takes its
\* next step when it can; a failure of the storage is not bound to happen.
Fairness == \A p \in Procs : WF_vars(register_wtxn(p)) /\ WF_vars(register_next_task_id(p)) /\ WF_vars(register_put(p)) /\ WF_vars(register_commit(p)) /\ WF_vars(update_tasks_wtxn(p)) /\ WF_vars(update_tasks_commit(p))

SpecLive == Init /\ [][NextLive]_vars /\ Fairness

(* ------------------------------------------------------------------ *)
(* Specification of a restore beside registrations                     *)
(* ------------------------------------------------------------------ *)

\* load_dump is given the environment of a log that callers register into:
\* each caller registers or restores, every step of one interleaved with the
\* steps of the other.
NextRestore ==
    \E p \in Procs :
        \/ \E content \in Contents : register(p, content)
        \/ register_wtxn(p)
        \/ register_next_task_id(p)
        \/ register_put(p)
        \/ register_commit(p)
        \/ register_error(p)
        \/ load_dump(p)
        \/ load_dump_wtxn(p)
        \/ \E task \in {t \in DumpTasks : Len(call[p].tasks) < MaxBatch} : load_dump_entry(p, task)
        \/ load_dump_parse_error(p)
        \/ load_dump_commit(p)
        \/ load_dump_error(p)

SpecRestore == Init /\ [][NextRestore]_vars

(* ------------------------------------------------------------------ *)
(* Specification of a dump beside a writer                             *)
(* ------------------------------------------------------------------ *)

\* The writer registers and updates tasks while the reader dumps the log,
\* every step of one interleaved with the steps of the other.
NextSnapshot ==
    \/ \E content \in {DocumentAddition("test"), IndexCreation("test")} : register(Writer, content)
    \/ register_wtxn(Writer)
    \/ register_next_task_id(Writer)
    \/ register_put(Writer)
    \/ register_commit(Writer)
    \/ register_error(Writer)
    \/ update_tasks(Writer)
    \/ update_tasks_wtxn(Writer)
    \/ \E task \in UpdateTasks : update_tasks_put(Writer, task)
    \/ update_tasks_commit(Writer)
    \/ update_tasks_error(Writer)
    \/ dump(Reader)
    \/ dump_rtxn(Reader)
    \/ dump_list(Reader)
    \/ dump_create(Reader)
    \/ dump_write(Reader)
    \/ dump_flush(Reader)
    \/ dump_error(Reader)

SpecSnapshot == Init /\ [][NextSnapshot]_vars

(* ------------------------------------------------------------------ *)
(* Claims                                                              *)
(* ------------------------------------------------------------------ *)

\* C1: after every commit of a register, an update_tasks or a load_dump, whatever
\* identifiers they put, next_task_id of the log is the greatest identifier
\* ever committed plus one, and no step makes it smaller.
C1_MonotonicAllocation == [](next_task_id(log) = committed_max + 1) /\ [][next_task_id(log') >= next_task_id(log)]_vars

\* C1 witness: a register has committed into a log whose identifiers have a gap.
C1_Witness == registered # <<>> /\ Cardinality(DOMAIN log) < committed_max + 1 /\ \A p \in Procs : pc[p] = "idle"

\* C2: the first next_task_id, read on the empty log, is 0; and in a write
\* transaction, with previous_id read before put(task) and next_id read after
\* it and before the commit, next_id = previous_id when task.id < previous_id
\* and next_id = task.id + 1 otherwise.
C2_PutAndNextTaskId ==
    /\ ret[Caller].op = "test_increment_task_id" => ret[Caller].id = 0
    /\ pc[Caller] = "test_commit" => call[Caller].id = IF call[Caller].task[1].id < call[Caller].next_task_id THEN call[Caller].next_task_id ELSE call[Caller].task[1].id + 1

\* C2 witness: the test overwrites an identifier below the greatest one, and
\* the log has a gap.
C2_Witness == pc[Caller] = "test_commit" /\ call[Caller].task[1].id \in DOMAIN log /\ call[Caller].task[1].id + 1 < call[Caller].next_task_id /\ Cardinality(DOMAIN log) < call[Caller].next_task_id

\* The smallest identifier the view does not hold.
smallest_absent(txn) == CHOOSE n \in 0..Cardinality(DOMAIN txn) : n \notin DOMAIN txn /\ \A m \in 0..(n - 1) : m \in DOMAIN txn

\* C3 as stated: the identifier register reads from next_task_id is the smallest
\* identifier its transaction does not hold.
C3_SmallestAbsent == \A p \in Procs : pc[p] = "register_put" => call[p].next_task_id = smallest_absent(view(p))

\* C3 amended: the identifier register reads from next_task_id is 0 on an empty
\* view and otherwise follows the greatest identifier held: it is not held,
\* every identifier held is below it, and the one before it is held.
C3_AfterGreatest == \A p \in Procs : pc[p] = "register_put" => (call[p].next_task_id \notin DOMAIN view(p) /\ (\A i \in DOMAIN view(p) : i < call[p].next_task_id) /\ (call[p].next_task_id = 0 \/ call[p].next_task_id - 1 \in DOMAIN view(p)))

\* C3 witness: register has read its identifier from a view with a gap.
C3_Witness == \E p \in Procs : pc[p] = "register_put" /\ call[p].next_task_id # smallest_absent(view(p))

\* C4: the step in which register commits and returns Ok returns the task of
\* identifier next_task_id of the log its transaction began on (the log is the
\* same at the commit: the writer is alone), of the content given and of the
\* events <<Created>> (status enqueued); in the log after that step
\* get_task(id, None) answers that task and every other identifier holds what it
\* held.
C4_Register == [][\A p \in Procs : (pc[p] = "register_commit" /\ ret'[p].kind = "Ok") => (ret'[p].tasks = <<Task(next_task_id(log), call[p].content, <<"Created">>)>> /\ status(ret'[p].tasks[1]) = "enqueued" /\ get_task_result(get(log', ret'[p].tasks[1].id), ret'[p].tasks[1].id, None) = Ok("get_task", ret'[p].tasks) /\ \A i \in (DOMAIN log \cup DOMAIN log') \ {ret'[p].tasks[1].id} : get(log', i) = get(log, i))]_vars

\* C4 witness: register has returned a task into a log that held other tasks.
C4_Witness == \E p \in Procs : ret[p].op = "register" /\ ret[p].kind = "Ok" /\ ret[p].tasks[1].id > 0 /\ get(log, ret[p].tasks[1].id) = Some(ret[p].tasks[1]) /\ Cardinality(DOMAIN log) > 1

\* C5: at most one write transaction is open, and the identifiers register has
\* returned grow strictly in the order of the commits: no two are equal.
C5_Serialized == Cardinality({p \in Procs : wtxns[p] # None}) <= 1 /\ \A i, j \in 1..Len(registered) : i < j => registered[i] < registered[j]

\* C5 witness: both callers have registered, one after the other.
C5_Witness == Len(registered) = 2 /\ \A p \in Procs : ret[p].op = "register" /\ ret[p].kind = "Ok"

\* C6: the step in which get_task's closure completes on an identifier its
\* snapshot does not hold returns UnexistingTask(id), whatever the filter (none
\* included): an error that is not the storage error; the log is unchanged.
C6_GetTaskAbsent == [][(get_task_get(Caller) /\ get(snapshot(Caller), call[Caller].id) = None) => (ret'[Caller] = UnexistingTask("get_task", call[Caller].id) /\ ret'[Caller] # StorageError("get_task") /\ log' = log)]_vars

\* C6 witness: get_task with a filter has answered UnexistingTask on a log that
\* holds other tasks.
C6_Witness == ret[Caller].op = "get_task" /\ ret[Caller].kind = "UnexistingTask" /\ call[Caller].filter # None /\ call[Caller].id \notin DOMAIN log /\ DOMAIN log # {}

\* A task passes a filter as the specification defines it: its index_uid is
\* known, is in the index set when there is one, and the predicate, when there
\* is one, is true of it.
passes(filter, task) == index_uid(task) # None /\ (filter.indexes = None \/ index_uid(task)[1] \in filter.indexes[1]) /\ (filter.filter_fn = None \/ ((filter.filter_fn[1].types = None \/ task.content.kind \in filter.filter_fn[1].types[1]) /\ (filter.filter_fn[1].statuses = None \/ status(task) \in filter.filter_fn[1].statuses[1])))

\* C7 as stated: on a task the snapshot holds, get_task(id, Some(filter)) returns
\* the task when it passes the filter and UnexistingTask(id) when it does not.
C7_GetTaskFiltered == [][(get_task_get(Caller) /\ get(snapshot(Caller), call[Caller].id) # None /\ call[Caller].filter # None) => ret'[Caller] = IF passes(call[Caller].filter[1], snapshot(Caller)[call[Caller].id]) THEN Ok("get_task", <<snapshot(Caller)[call[Caller].id]>>) ELSE UnexistingTask("get_task", call[Caller].id)]_vars

\* The identifiers list_tasks is to return from the log: at or before the
\* offset, of a task the filter accepts, and among the `limit` greatest of those.
listed_candidates(txn, offset, filter) == {i \in DOMAIN txn : (offset = None \/ i <= offset[1]) /\ (filter = None \/ passes(filter[1], txn[i]))}

listed(txn, offset, filter, limit) == {i \in listed_candidates(txn, offset, filter) : limit = None \/ Cardinality({j \in listed_candidates(txn, offset, filter) : j > i}) < limit[1]}

\* C8: the step in which list_tasks's closure completes returns, from the
\* committed log, the tasks of exactly the identifiers at or before the offset
\* that pass the index test and the predicate (type and status) of the filter,
\* cut to the `limit` most recent, each as stored, in strictly descending order.
C8_ListTasks == [][list_tasks_list(Caller) => (ret'[Caller].kind = "Ok" /\ {ret'[Caller].tasks[k].id : k \in 1..Len(ret'[Caller].tasks)} = listed(log, call[Caller].offset, call[Caller].filter, call[Caller].limit) /\ (\A k \in 1..Len(ret'[Caller].tasks) : ret'[Caller].tasks[k] = log[ret'[Caller].tasks[k].id]) /\ (\A k, l \in 1..Len(ret'[Caller].tasks) : k < l => ret'[Caller].tasks[k].id > ret'[Caller].tasks[l].id))]_vars

\* C8 witness: list_tasks with a status predicate and a limit has returned the
\* task whose Succeeded event an update_tasks committed, and left out a task
\* the filter rejects and a task beyond the limit.
C8_Witness == ret[Caller].op = "list_tasks" /\ ret[Caller].kind = "Ok" /\ call[Caller].filter # None /\ call[Caller].filter[1].filter_fn # None /\ call[Caller].filter[1].filter_fn[1].statuses = Some({"succeeded"}) /\ call[Caller].limit = Some(1) /\ Len(ret[Caller].tasks) = 1 /\ Cardinality(listed_candidates(log, call[Caller].offset, call[Caller].filter)) = 2 /\ Cardinality(DOMAIN log) = 3

\* C9: the step in which the route's closure completes returns, for each facet
\* of the query that holds *, alone or beside other values, what the query with
\* that facet left out returns.
C9_Wildcard == [][get_tasks_list(Caller) => \A facet \in {"index_uid", "type", "status"} : (call[Caller].query[1][facet] # None /\ "*" \in call[Caller].query[1][facet][1]) => ret'[Caller] = get_tasks_result(snapshot(Caller), [call[Caller].query[1] EXCEPT ![facet] = None])]_vars

\* C9 witness: a query whose index facet is * beside a value no task has, and
\* whose status facet is constrained, has returned a task and left one out.
C9_Witness == ret[Caller].op = "get_tasks" /\ ret[Caller].kind = "Ok" /\ call[Caller].query # None /\ call[Caller].query[1].index_uid = Some({"*", "pasteque"}) /\ call[Caller].query[1].status = Some({"succeeded"}) /\ Len(ret[Caller].tasks) = 1 /\ Cardinality(DOMAIN log) = 2

C11_InconsistencyKind == [][(get_processing_tasks_get(Caller) /\ missing(snapshot(Caller), call[Caller].processing.ids) # {}) => (ret'[Caller].kind # "Ok" /\ \A id \in TaskIds : ret'[Caller].kind # get_task_result(None, id, None).kind)]_vars

\* C11 amended: that step returns the error get_task returns for an absent
\* identifier, TaskError::UnexistingTask, carrying the first identifier of the
\* selection, in its order, that the snapshot does not hold.
C11_SameKind == [][(get_processing_tasks_get(Caller) /\ missing(snapshot(Caller), call[Caller].processing.ids) # {}) => \E k \in 1..Len(call[Caller].processing.ids) : (call[Caller].processing.ids[k] \notin DOMAIN snapshot(Caller) /\ (\A j \in 1..(k - 1) : call[Caller].processing.ids[j] \in DOMAIN snapshot(Caller)) /\ ret'[Caller].kind = get_task_result(None, call[Caller].processing.ids[k], None).kind /\ ret'[Caller].id = get_task_result(None, call[Caller].processing.ids[k], None).id /\ ret'[Caller].kind = "UnexistingTask")]_vars

\* C11 witness: a DocumentAdditions selection whose second identifier the log
\* does not hold has been answered with UnexistingTask of that identifier.
C11_Witness == ret[Caller].op = "get_processing_tasks" /\ ret[Caller].kind = "UnexistingTask" /\ call[Caller].processing.kind = "DocumentAdditions" /\ Len(call[Caller].processing.ids) = 2 /\ call[Caller].processing.ids[1] \in DOMAIN log /\ ret[Caller].id = call[Caller].processing.ids[2]

\* C12: while update_tasks holds its write transaction the committed log, which
\* is all a reader can see, does not change; the step in which it returns Ok
\* returns the list given and makes the log hold, at the identifier of every
\* task of the list, the last task of the list with that identifier, and leaves
\* every other identifier as it was; the step in which it returns an error
\* leaves the log as it was.
C12_UpdateTasksAtomic == [][\A p \in Procs : pc[p] = "update_tasks_put" => IF pc'[p] = "idle" /\ ret'[p].kind = "Ok" THEN (ret'[p].tasks = call[p].tasks /\ DOMAIN log' = DOMAIN log \cup {call[p].tasks[k].id : k \in 1..Len(call[p].tasks)} /\ (\A k \in 1..Len(call[p].tasks) : (\A l \in (k + 1)..Len(call[p].tasks) : call[p].tasks[l].id # call[p].tasks[k].id) => log'[call[p].tasks[k].id] = call[p].tasks[k]) /\ (\A i \in DOMAIN log : (\A k \in 1..Len(call[p].tasks) : call[p].tasks[k].id # i) => log'[i] = log[i])) ELSE log' = log]_vars

\* C12 witness: update_tasks has stored a list of two tasks of different
\* identifiers.
C12_Witness == \E p \in Procs : ret[p].op = "update_tasks" /\ ret[p].kind = "Ok" /\ Len(ret[p].tasks) = 2 /\ ret[p].tasks[1].id # ret[p].tasks[2].id /\ get(log, ret[p].tasks[1].id) = Some(ret[p].tasks[1]) /\ get(log, ret[p].tasks[2].id) = Some(ret[p].tasks[2])

\* The sequence e is a prefix of the sequence f.
is_prefix(e, f) == Len(e) <= Len(f) /\ \A k \in 1..Len(e) : f[k] = e[k]

\* C13 as stated: every stored task's events begin with Created and hold at
\* most one terminal event, and no step removes a task or stores under its
\* identifier events that do not extend the ones stored before.
C13_EventsAppendOnly == [](\A i \in DOMAIN log : (Len(log[i].events) > 0 /\ log[i].events[1] = "Created" /\ Cardinality({k \in 1..Len(log[i].events) : log[i].events[k] \in {"Succeeded", "Failed"}}) <= 1)) /\ [][\A i \in DOMAIN log : (i \in DOMAIN log' /\ is_prefix(log[i].events, log'[i].events))]_vars

\* C16: load_dump reads its records with one write transaction open; until it
\* returns, the committed log does not change; the step in which it returns Ok
\* makes the log hold every record read, the last one of an identifier at that
\* identifier, and leaves the other identifiers as they were; the step in which
\* it returns an error, a record that does not parse included, leaves the log
\* as it was before the call, without the records read before the failure.
C16_LoadDumpAtomic == [](\A p \in Procs : pc[p] = "load_dump_entry" => wtxns[p] # None) /\ [][\A p \in Procs : pc[p] = "load_dump_entry" => IF pc'[p] = "idle" /\ ret'[p].kind = "Ok" THEN (DOMAIN log' = DOMAIN log \cup {call[p].tasks[k].id : k \in 1..Len(call[p].tasks)} /\ (\A k \in 1..Len(call[p].tasks) : (\A l \in (k + 1)..Len(call[p].tasks) : call[p].tasks[l].id # call[p].tasks[k].id) => log'[call[p].tasks[k].id] = call[p].tasks[k]) /\ (\A i \in DOMAIN log : (\A k \in 1..Len(call[p].tasks) : call[p].tasks[k].id # i) => log'[i] = log[i])) ELSE log' = log]_vars

\* C16 witness: load_dump has failed on a record that does not parse after it
\* read a record, and the log does not hold the task of that record.
C16_Witness == \E p \in Procs : ret[p].op = "load_dump" /\ ret[p].kind = "Parse" /\ Len(call[p].tasks) = 1 /\ get(log, call[p].tasks[1].id) # Some(call[p].tasks[1]) /\ DOMAIN log # {}

\* C18: the step in which fetch_unfinished_tasks's closure completes returns,
\* from the committed log, the tasks of exactly the identifiers at or after the
\* offset (all when there is none) whose last event is neither Succeeded nor
\* Failed, each as stored, in strictly ascending order: a task whose terminal
\* event an update_tasks has committed is not returned.
C18_FetchUnfinished == [][fetch_unfinished_tasks_fetch(Caller) => (ret'[Caller].kind = "Ok" /\ {ret'[Caller].tasks[k].id : k \in 1..Len(ret'[Caller].tasks)} = {i \in DOMAIN log : (call[Caller].offset = None \/ i >= call[Caller].offset[1]) /\ (Len(log[i].events) = 0 \/ log[i].events[Len(log[i].events)] \notin {"Succeeded", "Failed"})} /\ (\A k \in 1..Len(ret'[Caller].tasks) : ret'[Caller].tasks[k] = log[ret'[Caller].tasks[k].id]) /\ (\A k, l \in 1..Len(ret'[Caller].tasks) : k < l => ret'[Caller].tasks[k].id < ret'[Caller].tasks[l].id))]_vars

\* C18 witness: with an offset, fetch_unfinished_tasks has returned one task and
\* left out a task before the offset and a task an update_tasks has finished.
C18_Witness == ret[Caller].op = "fetch_unfinished_tasks" /\ ret[Caller].kind = "Ok" /\ call[Caller].offset = Some(1) /\ Len(ret[Caller].tasks) = 1 /\ Cardinality(DOMAIN log) = 3 /\ ~is_finished(log[0]) /\ \E i \in DOMAIN log : i >= 1 /\ is_finished(log[i])

\* C14: when load_dump has restored into an empty log the directory a dump
\* filled, the log holds exactly the identifiers of the log the dump listed,
\* each with the same content and the same events, and its next_task_id is that
\* of the log the dump listed.
C14_RoundTrip == (ret[Caller].op = "load_dump" /\ ret[Caller].kind = "Ok") => (dumped # None /\ DOMAIN log = DOMAIN dumped[1] /\ (\A i \in DOMAIN log : (log[i].id = i /\ log[i].content = dumped[1][i].content /\ log[i].events = dumped[1][i].events)) /\ next_task_id(log) = next_task_id(dumped[1]))

\* C14 witness: a log with a gap in its identifiers, holding a Dump task and a
\* task with a terminal event, has been dumped and restored.
C14_Witness == ret[Caller].op = "load_dump" /\ ret[Caller].kind = "Ok" /\ DOMAIN log = {0, 2} /\ (\E i \in DOMAIN log : is_finished(log[i])) /\ (\E i \in DOMAIN log : index_uid(log[i]) = None)

\* C15 as stated: the records a completed dump wrote are one per task of the log
\* it listed, in ascending order of identifier.
C15_FileAscending == (ret[Caller].op = "dump" /\ ret[Caller].kind = "Ok") => (Len(dir[1].data) = Cardinality(DOMAIN dumped[1]) /\ {dir[1].data[k][1] : k \in 1..Len(dir[1].data)} = DOMAIN dumped[1] /\ \A k, l \in 1..Len(dir[1].data) : k < l => dir[1].data[k][1] < dir[1].data[l][1])

\* C15 amended: the records a completed dump wrote are one per task of the log
\* it listed, every task whatever its index, type and status, each the record
\* of the task as stored, in descending order of identifier: the most recent
\* task first, the order of list_tasks.
C15_FileDescending == (ret[Caller].op = "dump" /\ ret[Caller].kind = "Ok") => (Len(dir[1].data) = Cardinality(DOMAIN dumped[1]) /\ {dir[1].data[k][1] : k \in 1..Len(dir[1].data)} = DOMAIN dumped[1] /\ (\A k \in 1..Len(dir[1].data) : from_reader(dir[1].data[k]) = dumped[1][dir[1].data[k][1]]) /\ \A k, l \in 1..Len(dir[1].data) : k < l => dir[1].data[k][1] > dir[1].data[l][1])

\* C15 witness: a dump has written three records, one of a Dump task.
C15_Witness == ret[Caller].op = "dump" /\ ret[Caller].kind = "Ok" /\ Len(dir[1].data) = 3 /\ \E k \in 1..3 : dir[1].data[k][3] = None

\* C19: the step in which dump writes the record of a task calls the payload
\* store's hook, once, with the task's content uuid when the last event of the
\* task as listed is neither Succeeded nor Failed and its content has a
\* payload, and does not call it otherwise; a completed dump has called the
\* hook as many times as the log it listed has such tasks.
C19_PayloadHook == [](ret[Caller].op = "dump" /\ ret[Caller].kind = "Ok" => Len(dir[1].payloads) = Cardinality({i \in DOMAIN dumped[1] : dumped[1][i].events[Len(dumped[1][i].events)] \notin {"Succeeded", "Failed"} /\ dumped[1][i].content.content_uuid # None})) /\ [][dump_write(Caller) => dir'[1].payloads = IF call[Caller].tasks[call[Caller].k + 1].events[Len(call[Caller].tasks[call[Caller].k + 1].events)] \notin {"Succeeded", "Failed"} /\ call[Caller].tasks[call[Caller].k + 1].content.content_uuid # None THEN Append(dir[1].payloads, call[Caller].tasks[call[Caller].k + 1].content.content_uuid[1]) ELSE dir[1].payloads]_vars

\* C19 witness: a dump has listed a task with payload that is not finished, a
\* task with payload that is finished and a task without payload that is not
\* finished, and has called the hook once.
C19_Witness == ret[Caller].op = "dump" /\ ret[Caller].kind = "Ok" /\ Len(dir[1].payloads) = 1 /\ (\E i \in DOMAIN dumped[1] : is_finished(dumped[1][i]) /\ get_content_uuid(dumped[1][i]) # None) /\ (\E i \in DOMAIN dumped[1] : ~is_finished(dumped[1][i]) /\ get_content_uuid(dumped[1][i]) = None)

\* What a read that completes without a storage failure returns on the log txn.
read_result(txn, at, locals) == CASE at = "get_task_get" -> get_task_result(get(txn, locals.id), locals.id, locals.filter) [] at = "get_processing_tasks_get" -> get_processing_tasks_result(txn, locals.processing) [] at = "list_tasks_list" -> list_tasks_result(txn, locals.offset, locals.filter, locals.limit) [] at = "fetch_unfinished_tasks_fetch" -> fetch_unfinished_tasks_result(txn, locals.offset)

\* C17: beside a writer that registers and updates tasks, (1) the committed log
\* changes only in the step a write transaction commits, to the whole view of
\* that transaction; (2) the snapshot of a read is the committed log of the
\* moment the read began and does not change while the read runs, whatever the
\* writer commits meanwhile; (3) every task get_processing_tasks has resolved
\* so far is the one its snapshot holds; (4) a read that completes returns what
\* get_task, get_processing_tasks, list_tasks or fetch_unfinished_tasks return
\* on that one snapshot.
C17_ReadSnapshot == [](pc[Reader] = "get_processing_tasks_get" => \A k \in 1..Len(call[Reader].tasks) : get(snapshot(Reader), call[Reader].processing.ids[k]) = Some(call[Reader].tasks[k])) /\ [][(log' # log => (wtxns[Writer] # None /\ log' = view(Writer) /\ pc'[Writer] = "idle" /\ ret'[Writer].kind = "Ok")) /\ ((rtxns'[Reader] # None /\ rtxns'[Reader] # rtxns[Reader]) => (rtxns[Reader] = None /\ rtxns'[Reader] = Some(log))) /\ ((pc[Reader] \in {"get_task_get", "get_processing_tasks_get", "list_tasks_list", "fetch_unfinished_tasks_fetch"} /\ pc'[Reader] = "idle" /\ ret'[Reader].kind # "Storage") => ret'[Reader] = read_result(snapshot(Reader), pc[Reader], call[Reader]))]_vars

\* C17 witness: get_processing_tasks has resolved the first of two identifiers
\* and the writer has since committed another task under the second.
C17_Witness == pc[Reader] = "get_processing_tasks_get" /\ Len(call[Reader].processing.ids) = 2 /\ call[Reader].k = 1 /\ get(snapshot(Reader), call[Reader].processing.ids[2]) # None /\ get(log, call[Reader].processing.ids[2]) # get(snapshot(Reader), call[Reader].processing.ids[2])

\* C20: whether or not its caller abandons the wait, a register or update_tasks
\* that has been dispatched returns, a write transaction that is open is closed,
\* by its commit or by its failure, and a caller without a running call holds
\* no write transaction: a writer waiting for the write slot gets it.
C20_RunsToCompletion == [](\A p \in Procs : pc[p] = "idle" => wtxns[p] = None) /\ (\A p \in Procs : (pc[p] # "idle" ~> pc[p] = "idle")) /\ (\A p \in Procs : (wtxns[p] # None ~> wtxns[p] = None))

\* C20 witness: a register whose caller abandoned it while its write
\* transaction was open has committed, and the other caller has registered
\* after it.
C20_Witness == \E p, q \in Procs : p # q /\ pc[p] = "idle" /\ call[p].abandoned /\ ret[p].op = "register" /\ ret[p].kind = "Ok" /\ ret[q].op = "register" /\ ret[q].kind = "Ok" /\ ~call[q].abandoned /\ ret[q].tasks[1].id > ret[p].tasks[1].id

\* C21: with load_dump and register interleaved on one log, the task the last
\* successful register of a caller returned is stored at its identifier as
\* it was registered, and the records the last successful load_dump of a
\* caller read are stored at their identifiers.
C21_NothingLost == \A p \in Procs : (ret[p].kind = "Ok" /\ ret[p].op = "register" => get(log, ret[p].tasks[1].id) = Some(ret[p].tasks[1])) /\ (ret[p].kind = "Ok" /\ ret[p].op = "load_dump" => \A i \in 1..Len(call[p].tasks) : get(log, call[p].tasks[i].id) = Some(call[p].tasks[i]))

\* The calls of the payload hook a dump makes for the task stored under id in
\* the log txn: one when the task is not finished and has a payload, else none.
copied(txn, id) == IF txn[id].events[Len(txn[id].events)] \notin {"Succeeded", "Failed"} /\ txn[id].content.content_uuid # None THEN 1 ELSE 0

\* The number of hook calls for the first n records of the file data.
RECURSIVE copies(_, _, _)
copies(txn, data, n) == IF n = 0 THEN 0 ELSE copies(txn, data, n - 1) + copied(txn, data[n][1])

\* C22: while a writer commits registers and update_tasks beside the dump, every
\* record of data.jsonl is the record of the task stored under its identifier
\* in the snapshot of the dump's one list_tasks read, no identifier is
\* written twice, the payload hook has been called for exactly the written
\* tasks that are unfinished with a payload in that snapshot, and a completed
\* dump holds one record for every task of the snapshot and no other.
C22_DumpSnapshot == dir # None => /\ dumped # None
                                  /\ \A i \in 1..Len(dir[1].data) : dir[1].data[i][1] \in DOMAIN dumped[1] /\ dir[1].data[i] = to_writer(dumped[1][dir[1].data[i][1]])
                                  /\ \A i, j \in 1..Len(dir[1].data) : dir[1].data[i][1] = dir[1].data[j][1] => i = j
                                  /\ Len(dir[1].payloads) = copies(dumped[1], dir[1].data, Len(dir[1].data))
                                  /\ (ret[Reader].op = "dump" /\ ret[Reader].kind = "Ok" => {dir[1].data[i][1] : i \in 1..Len(dir[1].data)} = DOMAIN dumped[1])

\* C22 witness: a dump has completed and copied the payload of a task that
\* was unfinished in its snapshot, while the log as committed now holds that
\* task as finished and holds a task the snapshot does not have.
C22_Witness == ret[Reader].op = "dump" /\ ret[Reader].kind = "Ok" /\ Len(dir[1].payloads) >= 1 /\ (\E id \in DOMAIN dumped[1] : ~is_finished(dumped[1][id]) /\ get_content_uuid(dumped[1][id]) # None /\ is_finished(log[id])) /\ DOMAIN log # DOMAIN dumped[1]

====
